---- MODULE Spec2Model ----
(***************************************************************************)
(* City information API server (city_api_server.js).                       *)
(*                                                                         *)
(* The model follows Node's run-to-completion scheduling: a step is one    *)
(* I/O completion (a proxy probe or an upstream call settling, the proxy   *)
(* list import settling, a request arriving) together with the promise     *)
(* continuations it triggers, up to the next I/O await.                    *)
(*                                                                         *)
(* JavaScript values are records: a primitive carries the tag field js     *)
(* (undefined, string, number, array); any record without that field is a  *)
(* plain object whose fields are its properties.                           *)
(***************************************************************************)
EXTENDS Integers, Sequences, FiniteSets, TLC

(* ------------------------- bounds of the model ------------------------- *)
\* size of the largest proxyList.json considered
MaxProxies == 2
\* clock ticks the unit harness lets pass
MaxTicks == 2
\* largest maxRetries argument handed to getValidProxy by the unit harness
MaxRetriesArg == 3
\* length of the longest article list an upstream returns
MaxArticles == 11
\* length of the shortest article list an upstream returns
MinArticles == 2
\* most chains whose first url is not in the cache when a request meets a warm cache
MaxCold == 2

(* --------------------------- JavaScript values ------------------------- *)
Undefined == [js |-> "undefined"]
Str(s) == [js |-> "string", val |-> s]
Num(n) == [js |-> "number", val |-> n]
Arr(s) == [js |-> "array", items |-> s]

IsPrimitive(v) == "js" \in DOMAIN v
IsUndefined(v) == IsPrimitive(v) /\ v.js = "undefined"
IsArray(v) == IsPrimitive(v) /\ v.js = "array"
IsString(v) == IsPrimitive(v) /\ v.js = "string"
IsNumber(v) == IsPrimitive(v) /\ v.js = "number"

\* ToBoolean, as used by `if (x)`, `x || y`, `x ? a : b`
Truthy(v) ==
  IF IsUndefined(v) THEN FALSE
  ELSE IF IsString(v) THEN v.val # ""
  ELSE IF IsNumber(v) THEN v.val # 0
  ELSE TRUE

\* v.f ; reading a property of undefined throws (CanRead is FALSE)
CanRead(v) == ~IsUndefined(v)
Get(v, f) == IF ~IsPrimitive(v) /\ f \in DOMAIN v THEN v[f] ELSE Undefined

\* v.length > 0
LengthPositive(v) ==
  IF IsArray(v) THEN Len(v.items) > 0
  ELSE IF IsString(v) THEN v.val # ""
  ELSE FALSE

\* v[0]
First(v) == IF IsArray(v) /\ Len(v.items) > 0 THEN v.items[1] ELSE Undefined

\* a || b
OrElse(a, b) == IF Truthy(a) THEN a ELSE b

\* arr.slice(0, n)
Slice(s, n) == IF Len(s) <= n THEN s ELSE SubSeq(s, 1, n)

\* JSON.stringify of an object: properties whose value is undefined are left out
JsonInner(v) ==
  IF IsPrimitive(v) THEN v
  ELSE [f \in {g \in DOMAIN v : ~IsUndefined(v[g])} |-> v[f]]
Json(o) == [f \in {g \in DOMAIN o : ~IsUndefined(o[g])} |-> JsonInner(o[f])]

(* ------------------------------- the URLs ------------------------------ *)
CityName == "Paris"
NoneSource == Str("None")

geoNamesUrl(cityName) == "http://api.geonames.org/searchJSON?q=" \o cityName \o "&maxRows=1"
wikipediaUrl(cityName) == "https://en.wikipedia.org/api/rest_v1/page/summary/" \o cityName
geoCodingUrl(cityName) == "https://api.openweathermap.org/geo/1.0/direct?q=" \o cityName \o "&limit=1"
geoUrl(cityName) == "https://api.openweathermap.org/geo/1.0/direct?q=" \o cityName \o "&limit=1"
weatherUrls(cityName) ==
  << "https://api.openweathermap.org/data/2.5/forecast?q=" \o cityName \o "&units=metric",
     "https://api.weatherapi.com/v1/forecast.json?q=" \o cityName \o "&days=7" >>
newsUrls(cityName) ==
  << "https://newsapi.org/v2/everything?q=" \o cityName,
     "https://gnews.io/api/v4/search?q=" \o cityName \o "&lang=en" >>
eventsUrl(cityName) == "https://api.eventful.com/json/events/search?location=" \o cityName
trafficUrl(lat, lon) ==
  "https://api.tomtom.com/traffic/services/4/flowSegmentData/absolute/10/json?point=" \o lat \o "," \o lon

AllUrls ==
  { geoNamesUrl(CityName), wikipediaUrl(CityName), geoCodingUrl(CityName),
    weatherUrls(CityName)[1], weatherUrls(CityName)[2],
    newsUrls(CityName)[1], newsUrls(CityName)[2],
    eventsUrl(CityName), trafficUrl("48.85", "2.35") }

(* ----------------- what the upstream services may answer --------------- *)
\* an empty 200 body: axios hands it over as the empty string
EmptyBody == Str("")

Article(i) == [title |-> Str("headline " \o ToString(i))]
Articles(n) == Arr([i \in 1..n |-> Article(i)])

GeoNamesPayloads ==
  { [geonames |-> Arr(<< [name |-> Str("Paris"), population |-> Num(2138551),
                          countryName |-> Str("France"),
                          lat |-> Str("48.85"), lng |-> Str("2.35")] >>)],
    [geonames |-> Arr(<< >>)] }
WikipediaPayloads ==
  { [title |-> Str("Paris"), extract |-> Str("Paris is the capital of France."),
     thumbnail |-> [source |-> Str("https://upload.wikimedia.org/paris.jpg")]],
    [title |-> Str("Paris")] }
GeocodingPayloads ==
  { Arr(<< [name |-> Str("Paris"), lat |-> Str("48.85"), lon |-> Str("2.35"),
            country |-> Str("FR")] >>),
    Arr(<< >>), EmptyBody }
WeatherPayloads == { [cod |-> Str("200"), list |-> Arr(<< >>)], EmptyBody }
NewsPayloads == { [status |-> Str("ok"), articles |-> Articles(MaxArticles)],
                  [status |-> Str("ok"), articles |-> Articles(MinArticles)],
                  [status |-> Str("error")] }
EventsPayloads ==
  { [events |-> [event |-> Arr(<< [title |-> Str("Jazz"), venue_name |-> Str("Olympia")] >>)]],
    [total_items |-> Str("0")] }
TrafficPayloads == { [flowSegmentData |-> [currentSpeed |-> Num(50)]],
                     [flowSegmentData |-> [currentSpeed |-> Num(0)]] }

Payloads(url) ==
  IF url = geoNamesUrl(CityName) THEN GeoNamesPayloads
  ELSE IF url = wikipediaUrl(CityName) THEN WikipediaPayloads
  ELSE IF url = geoCodingUrl(CityName) THEN GeocodingPayloads
  ELSE IF url \in {weatherUrls(CityName)[1], weatherUrls(CityName)[2]} THEN WeatherPayloads
  ELSE IF url \in {newsUrls(CityName)[1], newsUrls(CityName)[2]} THEN NewsPayloads
  ELSE IF url = eventsUrl(CityName) THEN EventsPayloads
  ELSE TrafficPayloads

\* how an awaited call settles: it rejects (network error, timeout, non-2xx)
\* or resolves with a response carrying a payload
Rejected == [ok |-> FALSE]
Resolved(v) == [ok |-> TRUE, data |-> v]
Settlements(url) == {Rejected} \cup {Resolved(v) : v \in Payloads(url)}

(* ------------------------------ the cache ------------------------------ *)
\* the model's clock counts milliseconds, in ticks of TickMs
TickMs == 3600000
stdTTL == 3600

NoEntry == [present |-> FALSE]
EmptyCache == [u \in AllUrls |-> NoEntry]

\* NodeCache.get: an entry whose expiry time lies in the past is absent
cacheGet(c, url, t) ==
  IF c[url].present /\ ~(c[url].t < t) THEN c[url].v ELSE Undefined

\* NodeCache.set with the standard TTL
cacheSet(c, url, v, t) ==
  [c EXCEPT ![url] = [present |-> TRUE, v |-> v, t |-> t + stdTTL * 1000]]

(* ------------------------ proxy selection ------------------------------ *)
ProductionError == "Proxy rotation is not enabled in production."
NoValidProxyError == "No valid proxies available after maximum retries."
DefaultMaxRetries == 5

ProxyCandidate(i) == [host |-> "10.0.0." \o ToString(i), port |-> 8080]
ProxyFile(k) == [i \in 1..k |-> ProxyCandidate(i)]

\* the loop test of getValidProxy and what follows it: another probe or the throw
getValidProxyLoopNoEmptyCheck(retries, maxRetries, list) ==
  IF retries < maxRetries
  THEN [kind |-> "probe", retries |-> retries]
  ELSE [kind |-> "throw", error |-> NoValidProxyError]
getValidProxyLoopOffByOne(retries, maxRetries, list) ==
  IF retries <= maxRetries /\ Len(list) > 0
  THEN [kind |-> "probe", retries |-> retries]
  ELSE [kind |-> "throw", error |-> NoValidProxyError]
getValidProxyLoop(retries, maxRetries, list) ==
  IF retries < maxRetries /\ Len(list) > 0
  THEN [kind |-> "probe", retries |-> retries]
  ELSE [kind |-> "throw", error |-> NoValidProxyError]

\* getValidProxy up to its first await
getValidProxyNoModeCheck(env, maxRetries, list) == getValidProxyLoop(0, maxRetries, list)
getValidProxy(env, maxRetries, list) ==
  IF env = "production"
  THEN [kind |-> "throw", error |-> ProductionError]
  ELSE getValidProxyLoop(0, maxRetries, list)

\* getValidProxy resumed with the result of validateProxy(proxy)
getValidProxyResume(valid, proxy, retries, maxRetries, list) ==
  IF valid
  THEN [kind |-> "return", proxy |-> proxy]
  ELSE getValidProxyLoop(retries + 1, maxRetries, list)

\* getValidProxy from its first probe to its return or throw, when the first
\* `failures` probes fail and the next one succeeds; probes counts the probes
RECURSIVE getValidProxyRun(_, _, _, _, _, _)
getValidProxyRun(failures, proxy, retries, maxRetries, list, probes) ==
  LET g == getValidProxyResume(retries >= failures, proxy, retries, maxRetries, list)
  IN  IF g.kind = "probe"
      THEN getValidProxyRun(failures, proxy, g.retries, maxRetries, list, probes + 1)
      ELSE [kind |-> g.kind, probes |-> probes + 1]

(* ----------------------------- the fetcher ----------------------------- *)
\* without the cache lookup
axiosWithRotationNoCache(env, list, c, url, t) ==
  IF env = "production"
  THEN [kind |-> "net"]
  ELSE LET g == getValidProxy(env, DefaultMaxRetries, list)
       IN  IF g.kind = "probe" THEN [kind |-> "probe", retries |-> 0]
           ELSE [kind |-> "throw"]

\* axiosWithRotation up to its first await: a cache hit returns, otherwise
\* production issues the upstream call and the other modes select a proxy
axiosWithRotation(env, list, c, url, t) ==
  LET cachedData == cacheGet(c, url, t)
  IN  IF Truthy(cachedData)
      THEN [kind |-> "return", data |-> cachedData]
      ELSE IF env = "production"
      THEN [kind |-> "net"]
      ELSE LET g == getValidProxy(env, DefaultMaxRetries, list)
           IN  IF g.kind = "probe" THEN [kind |-> "probe", retries |-> 0]
               ELSE [kind |-> "throw"]

\* axiosWithRotation resumed when the getValidProxy it awaits has settled
axiosAfterProxyDirect(failures, proxy, list) == [kind |-> "net"]
axiosAfterProxy(failures, proxy, list) ==
  LET g == getValidProxyRun(failures, proxy, 0, DefaultMaxRetries, list, 0)
  IN  IF g.kind = "return" THEN [kind |-> "net"] ELSE [kind |-> "throw"]

\* axiosWithRotation resumed when the axios.get(url) it awaits has settled
axiosAfterNetRetrying(settled) ==
  IF settled.ok THEN [kind |-> "return", data |-> settled.data] ELSE [kind |-> "net"]
axiosAfterNet(settled) ==
  IF settled.ok THEN [kind |-> "return", data |-> settled.data] ELSE [kind |-> "throw"]

\* the cache after the upstream call settled
cacheAfterNetAlways(c, url, settled, t) ==
  cacheSet(c, url, IF settled.ok THEN settled.data ELSE Str("Failed to fetch data from the source."), t)
cacheAfterNet(c, url, settled, t) ==
  IF settled.ok THEN cacheSet(c, url, settled.data, t) ELSE c

(* ------------------------- the category chains ------------------------- *)
\* What a chain does when `await axiosWithRotation(url)` of its step `step`
\* yields `out` (Resolved(payload), or Rejected when the fetcher threw):
\*   return       this provider's normalised result is the chain's result
\*   next         go on with the fetch of the next provider
\*   substep      go on with the next fetch of the same provider
\*   unavailable  no provider is left: the chain's result is its sentinel
Return(v) == [kind |-> "return", value |-> v]
NextProvider(step, url) == [kind |-> "next", step |-> step, url |-> url]
SubStep(step, url) == [kind |-> "substep", step |-> step, url |-> url]
Unavailable(v) == [kind |-> "unavailable", value |-> v]

\* v?.f
OptGet(v, f) == IF IsUndefined(v) THEN Undefined ELSE Get(v, f)
\* `${v}`
Template(v) ==
  IF IsString(v) THEN v.val
  ELSE IF IsNumber(v) THEN ToString(v.val)
  ELSE IF IsUndefined(v) THEN "undefined"
  ELSE "[object Object]"

CityUnavailable == [error |-> Str("City information unavailable"), source |-> Str("None")]
WeatherUnavailable == [data |-> Str("Weather data unavailable"), source |-> Str("None")]
NewsUnavailable == [data |-> Str("News data unavailable"), source |-> Str("None")]
EventsUnavailableAsEmptyList == [data |-> Arr(<< >>), source |-> Str(eventsUrl(CityName))]
EventsUnavailable == [data |-> Str("Events data unavailable"), source |-> Str("None")]
TrafficUnavailable == [traffic_status |-> Str("Traffic data unavailable"), source |-> Str("None")]

fetchCityInfo(cityName, step, url, out) ==
  IF step = 1 THEN
    LET geonames == Get(out.data, "geonames")
        cityData == First(geonames)
    IN  IF out.ok /\ CanRead(geonames) /\ LengthPositive(geonames)
        THEN Return([name |-> Get(cityData, "name"),
                     population |-> OrElse(Get(cityData, "population"), Str("Data unavailable")),
                     country |-> Get(cityData, "countryName"),
                     coordinates |-> [lat |-> Get(cityData, "lat"), lon |-> Get(cityData, "lng")],
                     source |-> Str(geoNamesUrl(cityName))])
        ELSE NextProvider(2, wikipediaUrl(cityName))
  ELSE IF step = 2 THEN
    IF out.ok /\ CanRead(out.data)
    THEN Return([name |-> Get(out.data, "title"),
                 description |-> OrElse(Get(out.data, "extract"), Str("Description unavailable")),
                 image |-> OrElse(OptGet(Get(out.data, "thumbnail"), "source"), Str("No image available")),
                 source |-> Str(wikipediaUrl(cityName))])
    ELSE NextProvider(3, geoCodingUrl(cityName))
  ELSE
    LET location == First(out.data)
    IN  IF out.ok /\ LengthPositive(out.data)
        THEN Return([name |-> Get(location, "name"),
                     coordinates |-> [lat |-> Get(location, "lat"), lon |-> Get(location, "lon")],
                     country |-> Get(location, "country"),
                     source |-> Str(geoCodingUrl(cityName))])
        ELSE Unavailable(CityUnavailable)

\* without the return inside the loop: the last provider that answers wins
fetchWeatherDataNoEarlyReturn(cityName, step, url, out) ==
  IF step < Len(weatherUrls(cityName))
  THEN NextProvider(step + 1, weatherUrls(cityName)[step + 1])
  ELSE IF out.ok
  THEN Return([data |-> out.data, source |-> Str(url)])
  ELSE Unavailable(WeatherUnavailable)

fetchWeatherData(cityName, step, url, out) ==
  IF out.ok
  THEN Return([data |-> out.data, source |-> Str(url)])
  ELSE IF step < Len(weatherUrls(cityName))
  THEN NextProvider(step + 1, weatherUrls(cityName)[step + 1])
  ELSE Unavailable(WeatherUnavailable)

\* response.data.articles.slice(0, 10).map((article) => article.title)
NewsTitlesUntruncated(articles) ==
  Arr([i \in 1..Len(articles.items) |-> Get(articles.items[i], "title")])
NewsTitles(articles) ==
  LET first == Slice(articles.items, 10)
  IN  Arr([i \in 1..Len(first) |-> Get(first[i], "title")])

fetchNewsData(cityName, step, url, out) ==
  LET articles == Get(out.data, "articles")
  IN  IF out.ok /\ IsArray(articles) /\ \A i \in 1..Len(articles.items) : CanRead(articles.items[i])
      THEN Return([data |-> NewsTitles(articles), source |-> Str(url)])
      ELSE IF step < Len(newsUrls(cityName))
      THEN NextProvider(step + 1, newsUrls(cityName)[step + 1])
      ELSE Unavailable(NewsUnavailable)

\* events.slice(0, 10).map((e) => `${e.title} at ${e.venue_name}`)
EventLines(events) ==
  LET first == Slice(events.items, 10)
  IN  Arr([i \in 1..Len(first) |->
             Str(Template(Get(first[i], "title")) \o " at " \o Template(Get(first[i], "venue_name")))])

fetchEventsData(cityName, step, url, out) ==
  LET events == OrElse(OptGet(Get(out.data, "events"), "event"), Arr(<< >>))
  IN  IF out.ok /\ IsArray(events) /\ \A i \in 1..Len(events.items) : CanRead(events.items[i])
      THEN Return([data |-> EventLines(events), source |-> Str(url)])
      ELSE Unavailable(EventsUnavailable)

\* with the geocoding failure swallowed and the flow data fetched for the city centre
fetchTrafficDataDefaultPoint(cityName, step, url, out) ==
  IF step = 1 THEN
    LET location == First(out.data)
    IN  IF out.ok /\ Truthy(location)
        THEN SubStep(2, trafficUrl(Template(Get(location, "lat")), Template(Get(location, "lon"))))
        ELSE SubStep(2, trafficUrl("48.85", "2.35"))
  ELSE
    LET currentSpeed == OptGet(OptGet(out.data, "flowSegmentData"), "currentSpeed")
    IN  IF out.ok
        THEN Return([traffic_status |->
                       IF Truthy(currentSpeed)
                       THEN Str("Current speed: " \o Template(currentSpeed) \o " km/h")
                       ELSE Str("Traffic data unavailable"),
                     source |-> Str(url)])
        ELSE Unavailable(TrafficUnavailable)

fetchTrafficData(cityName, step, url, out) ==
  IF step = 1 THEN
    LET location == First(out.data)
    IN  IF out.ok /\ Truthy(location)
        THEN SubStep(2, trafficUrl(Template(Get(location, "lat")), Template(Get(location, "lon"))))
        ELSE Unavailable(TrafficUnavailable)
  ELSE
    LET currentSpeed == OptGet(OptGet(out.data, "flowSegmentData"), "currentSpeed")
    IN  IF out.ok
        THEN Return([traffic_status |->
                       IF Truthy(currentSpeed)
                       THEN Str("Current speed: " \o Template(currentSpeed) \o " km/h")
                       ELSE Str("Traffic data unavailable"),
                     source |-> Str(url)])
        ELSE Unavailable(TrafficUnavailable)

\* the five chains, in the order the handler starts them
Chains == <<"city", "weather", "news", "events", "traffic">>
ChainSet == {Chains[i] : i \in 1..Len(Chains)}

FirstUrl(c, cityName) ==
  IF c = "city" THEN geoNamesUrl(cityName)
  ELSE IF c = "weather" THEN weatherUrls(cityName)[1]
  ELSE IF c = "news" THEN newsUrls(cityName)[1]
  ELSE IF c = "events" THEN eventsUrl(cityName)
  ELSE geoUrl(cityName)

Chain(c, cityName, step, url, out) ==
  IF c = "city" THEN fetchCityInfo(cityName, step, url, out)
  ELSE IF c = "weather" THEN fetchWeatherData(cityName, step, url, out)
  ELSE IF c = "news" THEN fetchNewsData(cityName, step, url, out)
  ELSE IF c = "events" THEN fetchEventsData(cityName, step, url, out)
  ELSE fetchTrafficData(cityName, step, url, out)

(* -------------------------------- state -------------------------------- *)
VARIABLES
  ENV,        \* process.env.NODE_ENV || "development"
  proxyFile,  \* what import("./proxyList.json") will settle with
  import,     \* "none" (production), "pending", "loaded", "failed"
  proxyList,  \* the module-level proxyList
  cache,      \* the NodeCache: url -> entry
  now,        \* Date.now()
  handling,   \* a request is inside the GET /api/city/:cityName handler
  requests,   \* inbound requests accepted since the initial state
  chain,      \* per category chain of the request being handled: where it waits
  res,        \* the response object of the request: what was sent on it
  unit        \* unit harness: the direct callers of axiosWithRotation and getValidProxy

vars == <<ENV, proxyFile, import, proxyList, cache, now, handling, requests, chain, res, unit>>

IdleChain ==
  [status |-> "idle", phase |-> "idle", step |-> 0, url |-> "",
   value |-> Undefined, att |-> << >>, calls |-> 0, proxy |-> "none"]

\* one entry of a chain's attempt log: a call of axiosWithRotation(url)
Attempt(url, a) ==
  [url |-> url, hit |-> a.kind = "return", outcome |-> "pending"]

Outcome(out, r) ==
  IF ~out.ok THEN "threw"
  ELSE IF r.kind = "return" THEN "returned"
  ELSE IF r.kind = "substep" THEN "continued"
  ELSE "invalid"

\* A chain runs from the call of axiosWithRotation(url) of its step `step` to its
\* next await or to its return; RunChain starts the call, Settle resumes the
\* chain once the call has yielded `out`.  calls counts the upstream calls
\* issued by the call of axiosWithRotation that is in progress, proxy tells how
\* its getValidProxy ended ("none": not called or not yet settled).
RECURSIVE RunChain(_, _, _, _, _, _, _)
RECURSIVE Settle(_, _, _, _, _, _, _, _)
\* with the fetch of the following provider issued without awaiting this one
RunChainFanOut(c, cityName, step, url, att, cch, t) ==
  LET a == axiosWithRotation(ENV, proxyList, cch, url, t)
      att1 == Append(att, Attempt(url, a))
      r == Chain(c, cityName, step, url, Rejected)
      att2 == IF r.kind = "next"
              THEN Append(att1, Attempt(r.url, axiosWithRotation(ENV, proxyList, cch, r.url, t)))
              ELSE att1
  IN  IF a.kind \in {"net", "probe"}
      THEN [status |-> "pending", phase |-> a.kind, step |-> step, url |-> url,
            value |-> Undefined, att |-> att2, calls |-> IF a.kind = "net" THEN 1 ELSE 0,
            proxy |-> "none"]
      ELSE Settle(c, cityName, step, url, att1,
                  IF a.kind = "return" THEN Resolved(a.data) ELSE Rejected, cch, t)
RunChain(c, cityName, step, url, att, cch, t) ==
  LET a == axiosWithRotation(ENV, proxyList, cch, url, t)
      att1 == Append(att, Attempt(url, a))
  IN  IF a.kind \in {"net", "probe"}
      THEN [status |-> "pending", phase |-> a.kind, step |-> step, url |-> url,
            value |-> Undefined, att |-> att1, calls |-> IF a.kind = "net" THEN 1 ELSE 0,
            proxy |-> "none"]
      ELSE Settle(c, cityName, step, url, att1,
                  IF a.kind = "return" THEN Resolved(a.data) ELSE Rejected, cch, t)
Settle(c, cityName, step, url, att, out, cch, t) ==
  LET r == Chain(c, cityName, step, url, out)
      att1 == [att EXCEPT ![Len(att)].outcome = Outcome(out, r)]
  IN  IF r.kind \in {"return", "unavailable"}
      THEN [status |-> "fulfilled", phase |-> "done", step |-> step, url |-> url,
            value |-> r.value, att |-> att1, calls |-> 0, proxy |-> "none"]
      ELSE RunChain(c, cityName, r.step, r.url, att1, cch, t)

\* Promise.allSettled: every promise has settled (AnySettled: the first one has)
AnySettled(ch) == \E c \in ChainSet : ch[c].status \in {"fulfilled", "rejected"}
AllSettled(ch) == \A c \in ChainSet : ch[c].status \in {"fulfilled", "rejected"}

\* the object handed to res.json
Composite(cityName, ch) ==
  [city |-> Str(cityName),
   city_info |-> IF ch["city"].status = "fulfilled"
                 THEN Get(ch["city"].value, "data")
                 ELSE [error |-> Str("City data unavailable")],
   weather |-> IF ch["weather"].status = "fulfilled"
               THEN ch["weather"].value
               ELSE [data |-> Str("Weather data unavailable")],
   news |-> IF ch["news"].status = "fulfilled"
            THEN ch["news"].value
            ELSE [data |-> Str("News data unavailable")],
   events |-> IF ch["events"].status = "fulfilled"
              THEN ch["events"].value
              ELSE [data |-> Str("Events data unavailable")],
   traffic |-> IF ch["traffic"].status = "fulfilled"
               THEN ch["traffic"].value
               ELSE [traffic_status |-> Str("Traffic data unavailable")]]

\* what the handler sends once Promise.allSettled has resolved
ResponseFailFast(cityName, ch) ==
  IF \E c \in ChainSet : Get(ch[c].value, "source") = NoneSource
  THEN [status |-> 500, body |-> [error |-> Str("Error fetching city data")]]
  ELSE [status |-> 200, body |-> Json(Composite(cityName, ch))]
Response(cityName, ch) ==
  IF ch["city"].status = "fulfilled" /\ ~CanRead(ch["city"].value)
  THEN [status |-> 500, body |-> [error |-> Str("Error fetching city data")]]
  ELSE [status |-> 200, body |-> Json(Composite(cityName, ch))]

NoResponse == [sent |-> 0, status |-> 0, body |-> [none |-> Undefined]]
NoUnit == [kind |-> "none"]

(* ------------------------------- actions ------------------------------- *)
\* the dynamic import of proxyList.json settles
ImportSettles ==
  /\ import = "pending"
  /\ IF proxyFile.exists
     THEN import' = "loaded" /\ proxyList' = proxyFile.list
     ELSE import' = "failed" /\ UNCHANGED proxyList
  /\ UNCHANGED <<ENV, proxyFile, cache, now, handling, requests, chain, res, unit>>

\* GET /api/city/:cityName arrives: the handler starts the five chains
GetCity ==
  /\ ~handling
  /\ requests = 0
  /\ handling' = TRUE
  /\ requests' = requests + 1
  /\ res' = NoResponse
  /\ chain' = [c \in ChainSet |-> RunChain(c, CityName, 1, FirstUrl(c, CityName), << >>, cache, now)]
  /\ UNCHANGED <<ENV, proxyFile, import, proxyList, cache, now, unit>>

\* the getValidProxy awaited by chain c settles.  Its probes are taken in one
\* step: between them the loop reads only proxyList, which no longer changes
\* once it is non-empty, and writes nothing.
ProxySettles(c) ==
  /\ handling
  /\ chain[c].phase = "probe"
  /\ \E i \in 1..Len(proxyList), failures \in 0..DefaultMaxRetries :
       LET ch == chain[c]
           g == getValidProxyRun(failures, proxyList[i], 0, DefaultMaxRetries, proxyList, 0)
           a == axiosAfterProxy(failures, proxyList[i], proxyList)
       IN  chain' = [chain EXCEPT ![c] =
             IF a.kind = "net"
             THEN [ch EXCEPT !.phase = "net", !.calls = ch.calls + 1,
                             !.proxy = IF g.kind = "return" THEN "valid" ELSE "failed"]
             ELSE Settle(c, CityName, ch.step, ch.url, ch.att, Rejected, cache, now)]
  /\ UNCHANGED <<ENV, proxyFile, import, proxyList, cache, now, handling, requests, res, unit>>

\* the upstream call awaited by chain c settles
NetSettles(c) ==
  /\ handling
  /\ chain[c].phase = "net"
  /\ \E settled \in Settlements(chain[c].url) :
       LET ch == chain[c]
           a == axiosAfterNet(settled)
           cch == cacheAfterNet(cache, ch.url, settled, now)
       IN  /\ cache' = cch
           /\ chain' = [chain EXCEPT ![c] =
                IF a.kind = "net"
                THEN [ch EXCEPT !.calls = ch.calls + 1]
                ELSE Settle(c, CityName, ch.step, ch.url, ch.att,
                            IF a.kind = "return" THEN Resolved(a.data) ELSE Rejected, cch, now)]
  /\ UNCHANGED <<ENV, proxyFile, import, proxyList, now, handling, requests, res, unit>>

\* Promise.allSettled resolves and the handler sends the response
Respond ==
  /\ handling
  /\ AllSettled(chain)
  /\ LET r == Response(CityName, chain)
     IN  res' = [sent |-> res.sent + 1, status |-> r.status, body |-> r.body]
  /\ handling' = FALSE
  /\ UNCHANGED <<ENV, proxyFile, import, proxyList, cache, now, requests, chain, unit>>

Init ==
  /\ ENV \in {"production", "development"}
  \* which candidate a probe draws changes nothing a chain can see, so a
  \* non-empty proxyList.json has one entry here
  /\ proxyFile \in
       IF ENV = "production"
       THEN {[exists |-> FALSE, list |-> << >>]}
       ELSE {[exists |-> FALSE, list |-> << >>]}
            \cup {[exists |-> TRUE, list |-> ProxyFile(k)] : k \in {0, 1}}
  /\ import = IF ENV = "production" THEN "none" ELSE "pending"
  /\ proxyList = << >>
  /\ cache = EmptyCache
  /\ now = 0
  /\ handling = FALSE
  /\ requests = 0
  /\ chain = [c \in ChainSet |-> IdleChain]
  /\ res = NoResponse
  /\ unit = NoUnit

Next ==
  \/ ImportSettles
  \/ GetCity
  \/ \E c \in ChainSet : ProxySettles(c)
  \/ \E c \in ChainSet : NetSettles(c)
  \/ Respond

Spec == Init /\ [][Next]_vars

\* Every awaited call settles: axios.get carries a timeout (10 s for the
\* upstream call, 5 s for a proxy probe), so while a chain awaits one, some
\* awaited call settles; and the handler resumes once Promise.allSettled has
\* resolved.
SettlesWithoutNetTimeout ==
  \/ \E c \in ChainSet : ProxySettles(c)
  \/ Respond
Settles ==
  \/ \E c \in ChainSet : NetSettles(c)
  \/ \E c \in ChainSet : ProxySettles(c)
  \/ Respond

\* The server between two requests, some time after start-up: earlier requests
\* have left the first url of the chains in `warm` in the cache, the counters
\* are those of the request to come.
WarmPayload(url) == CHOOSE v \in Payloads(url) : Truthy(v)
WarmCache(warm) ==
  [u \in AllUrls |->
     IF \E c \in warm : u = FirstUrl(c, CityName)
     THEN [present |-> TRUE, v |-> WarmPayload(u), t |-> stdTTL * 1000]
     ELSE NoEntry]
InitWarm ==
  /\ ENV \in {"production", "development"}
  /\ proxyFile \in
       IF ENV = "production"
       THEN {[exists |-> FALSE, list |-> << >>]}
       ELSE {[exists |-> FALSE, list |-> << >>]}
            \cup {[exists |-> TRUE, list |-> ProxyFile(k)] : k \in {0, 1}}
  /\ import = IF ENV = "production" THEN "none" ELSE "pending"
  /\ proxyList = << >>
  /\ cache \in {WarmCache(warm) : warm \in {w \in SUBSET ChainSet : Cardinality(ChainSet \ w) <= MaxCold}}
  /\ now = 0
  /\ handling = FALSE
  /\ requests = 0
  /\ chain = [c \in ChainSet |-> IdleChain]
  /\ res = NoResponse
  /\ unit = NoUnit
FairSpec == InitWarm /\ [][Next]_vars /\ WF_vars(Settles)

(* ------------------------------ unit harness --------------------------- *)
\* The fetcher and the proxy selector called directly, as a test would call
\* them: two callers invoke axiosWithRotation while the clock advances
\* ("fetch"), or one caller invokes getValidProxy(maxRetries), every probe a
\* step of its own ("select").
Callers == {"f1", "f2"}
UnitUrls == {weatherUrls(CityName)[1]}

\* what a caller observes of the cache entry of its url when it invokes
EntryAt(c, url, t) ==
  IF ~c[url].present THEN "absent"
  ELSE IF c[url].t < t THEN "expired"
  ELSE IF Truthy(c[url].v) THEN "fresh" ELSE "fresh-falsy"

IdleCaller == [phase |-> "idle", url |-> "", entry |-> "absent", selected |-> FALSE,
               calls |-> 0, callAt |-> 0, last |-> "none", data |-> Undefined,
               agents |-> 0]
IdleSelect == [phase |-> "idle", maxRetries |-> 0, listLen |-> 0, retries |-> 0,
               probes |-> 0, picked |-> 0, lastValid |-> FALSE, returned |-> 0,
               error |-> ""]
FetchUnit == [kind |-> "fetch", callers |-> [p \in Callers |-> IdleCaller], sel |-> IdleSelect]
SelectUnit == [FetchUnit EXCEPT !.kind = "select"]

\* the caller after axiosWithRotation moved on as `a` says
UnitAfter(cl, a, t) ==
  IF a.kind = "return" THEN [cl EXCEPT !.phase = "idle", !.last = "returned", !.data = a.data]
  ELSE IF a.kind = "throw" THEN [cl EXCEPT !.phase = "idle", !.last = "threw"]
  ELSE IF a.kind = "net" THEN [cl EXCEPT !.phase = "net", !.calls = cl.calls + 1, !.callAt = t]
  ELSE [cl EXCEPT !.phase = "probe"]

UnitInvoke(p, url) ==
  /\ unit.kind = "fetch"
  /\ unit.callers[p].phase = "idle"
  /\ LET a == axiosWithRotation(ENV, proxyList, cache, url, now)
         \* new UserAgent() is the first statement of axiosWithRotation
         cl == [IdleCaller EXCEPT !.url = url, !.entry = EntryAt(cache, url, now),
                                  !.selected = a.kind \in {"probe", "throw"},
                                  !.agents = 1]
     IN  unit' = [unit EXCEPT !.callers[p] = UnitAfter(cl, a, now)]
  /\ UNCHANGED <<ENV, proxyFile, import, proxyList, cache, now, handling, requests, chain, res>>

UnitProxySettles(p) ==
  /\ unit.kind = "fetch"
  /\ unit.callers[p].phase = "probe"
  /\ \E i \in 1..Len(proxyList), failures \in 0..DefaultMaxRetries :
       unit' = [unit EXCEPT !.callers[p] =
                  UnitAfter(unit.callers[p], axiosAfterProxy(failures, proxyList[i], proxyList), now)]
  /\ UNCHANGED <<ENV, proxyFile, import, proxyList, cache, now, handling, requests, chain, res>>

UnitNetSettles(p) ==
  /\ unit.kind = "fetch"
  /\ unit.callers[p].phase = "net"
  /\ \E settled \in Settlements(unit.callers[p].url) :
       LET cl == unit.callers[p]
       IN  /\ cache' = cacheAfterNet(cache, cl.url, settled, now)
           /\ unit' = [unit EXCEPT !.callers[p] =
                         UnitAfter(cl, axiosAfterNet(settled), now)]
  /\ UNCHANGED <<ENV, proxyFile, import, proxyList, now, handling, requests, chain, res>>

Tick ==
  /\ unit.kind = "fetch"
  /\ now < MaxTicks * TickMs
  /\ now' = now + TickMs
  /\ UNCHANGED <<ENV, proxyFile, import, proxyList, cache, handling, requests, chain, res, unit>>

\* the select caller after getValidProxy moved on as `g` says; i is the index
\* drawn for the probe that g starts
SelectAfter(sl, g, i) ==
  IF g.kind = "probe"
  THEN [sl EXCEPT !.phase = "probe", !.retries = g.retries, !.probes = sl.probes + 1,
                  !.picked = i]
  ELSE IF g.kind = "return"
  THEN [sl EXCEPT !.phase = "returned", !.returned = sl.picked]
  ELSE [sl EXCEPT !.phase = "threw", !.error = g.error]

SelectInvoke(maxRetries) ==
  /\ unit.kind = "select"
  /\ unit.sel.phase = "idle"
  /\ \E i \in 1..(IF Len(proxyList) = 0 THEN 1 ELSE Len(proxyList)) :
       LET g == getValidProxy(ENV, maxRetries, proxyList)
           sl == [IdleSelect EXCEPT !.maxRetries = maxRetries, !.listLen = Len(proxyList)]
       IN  unit' = [unit EXCEPT !.sel = SelectAfter(sl, g, i)]
  /\ UNCHANGED <<ENV, proxyFile, import, proxyList, cache, now, handling, requests, chain, res>>

SelectProbeSettles ==
  /\ unit.kind = "select"
  /\ unit.sel.phase = "probe"
  /\ \E i \in 1..Len(proxyList), valid \in BOOLEAN :
       LET sl == [unit.sel EXCEPT !.lastValid = valid]
           g == getValidProxyResume(valid, proxyList[sl.picked], sl.retries, sl.maxRetries, proxyList)
       IN  unit' = [unit EXCEPT !.sel = SelectAfter(sl, g, i)]
  /\ UNCHANGED <<ENV, proxyFile, import, proxyList, cache, now, handling, requests, chain, res>>

InitUnit ==
  /\ ENV \in {"production", "development"}
  /\ proxyFile \in
       IF ENV = "production"
       THEN {[exists |-> FALSE, list |-> << >>]}
       ELSE {[exists |-> FALSE, list |-> << >>]}
            \cup {[exists |-> TRUE, list |-> ProxyFile(k)] : k \in 0..MaxProxies}
  /\ import = IF ENV = "production" THEN "none" ELSE "pending"
  /\ proxyList = << >>
  /\ cache = EmptyCache
  /\ now = 0
  /\ handling = FALSE
  /\ requests = 0
  /\ chain = [c \in ChainSet |-> IdleChain]
  /\ res = NoResponse
  /\ unit \in {FetchUnit, SelectUnit}

NextUnit ==
  \/ ImportSettles
  \/ \E p \in Callers, url \in UnitUrls : UnitInvoke(p, url)
  \/ \E p \in Callers : UnitProxySettles(p)
  \/ \E p \in Callers : UnitNetSettles(p)
  \/ Tick
  \/ \E maxRetries \in 0..MaxRetriesArg : SelectInvoke(maxRetries)
  \/ SelectProbeSettles

SpecUnit == InitUnit /\ [][NextUnit]_vars

(* ======================= the claims, request level ===================== *)
Att(c) == chain[c].att
Done(c) == chain[c].phase = "done"
\* no provider of chain c produced a result
AllProvidersFailed(c) ==
  /\ Done(c)
  /\ \A i \in 1..Len(Att(c)) : Att(c)[i].outcome # "returned"
Sent == res.sent > 0

\* the provider urls of each chain in their declared order
Declared(c) ==
  IF c = "city"
  THEN << "http://api.geonames.org/searchJSON?q=Paris&maxRows=1",
          "https://en.wikipedia.org/api/rest_v1/page/summary/Paris",
          "https://api.openweathermap.org/geo/1.0/direct?q=Paris&limit=1" >>
  ELSE IF c = "weather"
  THEN << "https://api.openweathermap.org/data/2.5/forecast?q=Paris&units=metric",
          "https://api.weatherapi.com/v1/forecast.json?q=Paris&days=7" >>
  ELSE IF c = "news"
  THEN << "https://newsapi.org/v2/everything?q=Paris",
          "https://gnews.io/api/v4/search?q=Paris&lang=en" >>
  ELSE IF c = "events"
  THEN << "https://api.eventful.com/json/events/search?location=Paris" >>
  ELSE << "https://api.openweathermap.org/geo/1.0/direct?q=Paris&limit=1",
          "https://api.tomtom.com/traffic/services/4/flowSegmentData/absolute/10/json?point=48.85,2.35" >>

\* the "unavailable" sentinel of each category and the field that carries it
SentinelField(c) ==
  IF c = "city" THEN "error" ELSE IF c = "traffic" THEN "traffic_status" ELSE "data"
SentinelText(c) ==
  IF c = "city" THEN "City information unavailable"
  ELSE IF c = "weather" THEN "Weather data unavailable"
  ELSE IF c = "news" THEN "News data unavailable"
  ELSE IF c = "events" THEN "Events data unavailable"
  ELSE "Traffic data unavailable"
IsSentinel(c, v) ==
  /\ Get(v, "source") = Str("None")
  /\ Get(v, SentinelField(c)) = Str(SentinelText(c))

\* C1: when GeoNames fails and Wikipedia succeeds, the composite response has a
\* city_info field whose source is the Wikipedia url and which carries name,
\* description and image but no population.
C1_CityInfoFromWikipedia ==
  (/\ Sent
   /\ Len(Att("city")) = 2
   /\ Att("city")[1].outcome \in {"threw", "invalid"}
   /\ Att("city")[2].outcome = "returned")
  => /\ "city_info" \in DOMAIN res.body
     /\ Get(res.body.city_info, "source") = Str("https://en.wikipedia.org/api/rest_v1/page/summary/Paris")
     /\ {"name", "description", "image"} \subseteq DOMAIN res.body.city_info
     /\ "population" \notin DOMAIN res.body.city_info

\* C2: when every provider of all five chains fails, the response has status 200
\* and carries an "unavailable" placeholder in each of city_info, weather, news,
\* events and traffic.
C2_FivePlaceholders ==
  (Sent /\ \A c \in ChainSet : AllProvidersFailed(c))
  => /\ res.status = 200
     /\ {"city_info", "weather", "news", "events", "traffic"} \subseteq DOMAIN res.body
     /\ Get(res.body.weather, "data") = Str("Weather data unavailable")
     /\ Get(res.body.news, "data") = Str("News data unavailable")
     /\ Get(res.body.events, "data") = Str("Events data unavailable")
     /\ Get(res.body.traffic, "traffic_status") = Str("Traffic data unavailable")

\* C3: a chain all of whose providers failed has returned normally, with source
\* "None" and with its category's "unavailable" sentinel as payload.
C3_ExhaustedChainReturnsSentinel ==
  \A c \in ChainSet :
    AllProvidersFailed(c) =>
      /\ chain[c].status = "fulfilled"
      /\ IsSentinel(c, chain[c].value)
C3_Witness ==
  /\ \A c \in ChainSet : AllProvidersFailed(c)
  /\ Len(Att("city")) = 3 /\ Att("city")[3].outcome = "invalid"
  /\ Att("events")[1].outcome = "threw"
  /\ Len(Att("traffic")) = 2

\* C4: in every chain the providers are fetched in declared order, each only
\* after its predecessors failed; the first one that succeeds ends the chain and
\* gives the result its source, and nothing after it is fetched.
C4_FirstSuccessWins ==
  \A c \in ChainSet :
    /\ Len(Att(c)) <= Len(Declared(c))
    /\ \A i \in 1..Len(Att(c)) :
         /\ Att(c)[i].url = Declared(c)[i]
         /\ i < Len(Att(c)) =>
              Att(c)[i].outcome \in
                (IF c = "traffic" THEN {"continued"}
                 ELSE IF c = "weather" THEN {"threw"} ELSE {"threw", "invalid"})
         /\ Att(c)[i].outcome = "returned" =>
              /\ i = Len(Att(c))
              /\ Done(c)
              /\ Get(chain[c].value, "source") = Str(Declared(c)[i])
    /\ (c = "weather" /\ Len(Att(c)) > 0) => Att(c)[Len(Att(c))].outcome # "invalid"
C4_Witness ==
  /\ Done("weather") /\ Len(Att("weather")) = 1 /\ Att("weather")[1].outcome = "returned"
  /\ Done("city") /\ Len(Att("city")) = 3 /\ Att("city")[3].outcome = "returned"
  /\ Att("city")[1].outcome = "invalid" /\ Att("city")[2].outcome = "threw"
  /\ Done("news") /\ Len(Att("news")) = 2 /\ Att("news")[2].outcome = "returned"

\* C9: when the geocoding fetch of the traffic chain fails or yields no location,
\* the traffic result is the "unavailable" sentinel with source "None" and the
\* flow-data url is never fetched.
C9_NoFlowFetchWithoutLocation ==
  (Len(Att("traffic")) >= 1 /\ Att("traffic")[1].outcome \in {"threw", "invalid"})
  => /\ Done("traffic")
     /\ Len(Att("traffic")) = 1
     /\ chain["traffic"].url = "https://api.openweathermap.org/geo/1.0/direct?q=Paris&limit=1"
     /\ IsSentinel("traffic", chain["traffic"].value)
C9_Witness ==
  /\ Done("traffic")
  /\ Att("traffic")[1].outcome = "invalid"
  /\ Sent

\* C10: a response is sent only once all five chains have settled, and at most
\* one response is sent for the request.
C10_RespondAfterAllSettled ==
  /\ res.sent <= 1
  /\ handling => res.sent = 0
  /\ (~handling /\ requests > 0) => res.sent = 1
  /\ Sent => \A c \in ChainSet : chain[c].status \in {"fulfilled", "rejected"}
C10_Witness ==
  /\ Sent
  /\ res.status = 200
  /\ AllProvidersFailed("city")
  /\ Att("weather")[1].outcome = "returned"
  /\ Len(Att("news")) = 2

\* the last entry of the attempt log of chain c
LastAtt(c) == Att(c)[Len(Att(c))]
\* outcomes that count as a failure of a provider attempt
Failures == {"threw", "invalid"}
\* the categories of the composite response
Categories == {"weather", "news", "events", "traffic"}

\* C11: whatever the providers do (proxy unavailable, fetch failure, timeout,
\* malformed or empty payload), the response that is sent has status 200 and is
\* the composite object, never the 500 error object.
C11_NoServerError ==
  Sent =>
    /\ res.status = 200
    /\ "error" \notin DOMAIN res.body
    /\ {"city"} \cup Categories \subseteq DOMAIN res.body
    /\ res.body.city = Str("Paris")
C11_Witness ==
  /\ Sent
  /\ Att("news")[1].outcome = "invalid" /\ LastAtt("news").outcome = "threw"
  /\ AllProvidersFailed("events")
  /\ LastAtt("weather").outcome = "returned"
  /\ chain["weather"].value.data = Str("")
  /\ AllProvidersFailed("city")

\* C13: outside production, when the proxy selection of a fetch fails, no
\* upstream call is made for it (a chain awaits an upstream call only with a
\* valid proxy), the cache stays as it was, the attempt counts as thrown and the
\* chain goes on with its next provider or, when none is left, ends with its
\* sentinel.
ProxySelectionFails(c) ==
  /\ ENV # "production"
  /\ chain[c].phase = "probe"
  /\ chain'[c] # chain[c]
  /\ ~(chain'[c].phase = "net" /\ Len(chain'[c].att) = Len(chain[c].att))
C13_ProxyFailureFailsFetch ==
  /\ [](ENV # "production" =>
          \A c \in ChainSet :
            /\ chain[c].phase = "net" => (chain[c].proxy = "valid" /\ Len(proxyList) > 0)
            /\ chain[c].phase = "probe" => (chain[c].calls = 0 /\ Len(proxyList) > 0))
  /\ [][\A c \in ChainSet :
          ProxySelectionFails(c) =>
            LET n == Len(chain[c].att)
            IN  /\ cache' = cache
                /\ chain'[c].att[n] = [chain[c].att[n] EXCEPT !.outcome = "threw"]
                /\ \/ /\ Len(chain'[c].att) > n
                      /\ c # "traffic"
                      /\ chain'[c].att[n + 1].url = Declared(c)[n + 1]
                   \/ /\ Len(chain'[c].att) = n
                      /\ (n = Len(Declared(c)) \/ c = "traffic")
                      /\ chain'[c].phase = "done"
                      /\ IsSentinel(c, chain'[c].value)]_vars
C13_Witness ==
  /\ ENV # "production"
  /\ import = "failed"
  /\ Done("weather") /\ Len(Att("weather")) = 2
  /\ Att("weather")[1].outcome = "threw" /\ Att("weather")[2].outcome = "threw"
  /\ ~Att("weather")[1].hit /\ ~Att("weather")[2].hit
  /\ cache = EmptyCache

\* C15: the news result lists the titles of the first 10 articles of the
\* provider's payload, in payload order, or of all articles when the payload
\* has 10 or fewer; it never has more than 10 entries.
C15_NewsFirstTenTitles ==
  (Done("news") /\ LastAtt("news").outcome = "returned") =>
    LET articles == cache[chain["news"].url].v.articles.items
        titles == chain["news"].value.data.items
    IN  /\ Len(titles) <= 10
        /\ Len(titles) = (IF Len(articles) > 10 THEN 10 ELSE Len(articles))
        /\ \A i \in 1..Len(titles) : titles[i] = articles[i].title
C15_Witness ==
  /\ Done("news") /\ LastAtt("news").outcome = "returned"
  /\ Len(cache[chain["news"].url].v.articles.items) > 10
  /\ Len(chain["news"].value.data.items) = 10
  /\ chain["news"].value.data.items[10] = Str("headline 10")

\* C16: a fetch that fails writes nothing to the cache; the cache changes only
\* when an upstream call for a url succeeds, and then only the entry of that
\* url, so every entry holds a payload the upstream of its url answered.
FetchFails(c) ==
  /\ chain[c].phase \in {"net", "probe"}
  /\ chain'[c].att[Len(chain[c].att)].outcome = "threw"
C16_FailedFetchLeavesCache ==
  /\ [](\A u \in AllUrls : cache[u].present => cache[u].v \in Payloads(u))
  /\ [][\A c \in ChainSet : FetchFails(c) => cache' = cache]_vars
  /\ [][cache' # cache =>
          \E c \in ChainSet :
            /\ chain[c].phase = "net"
            /\ chain'[c].att[Len(chain[c].att)].outcome \in {"returned", "continued", "invalid"}
            /\ \E v \in Payloads(chain[c].url) :
                 cache' = [cache EXCEPT ![chain[c].url] =
                             [present |-> TRUE, v |-> v, t |-> now + 3600 * 1000]]]_vars
C16_Witness ==
  /\ ENV = "production"
  /\ Done("weather") /\ Len(Att("weather")) = 2
  /\ Att("weather")[1].outcome = "threw"
  /\ ~cache["https://api.openweathermap.org/data/2.5/forecast?q=Paris&units=metric"].present
  /\ LastAtt("weather").outcome = "returned"
  /\ cache["https://api.weatherapi.com/v1/forecast.json?q=Paris&days=7"].present
  /\ AllProvidersFailed("events")
  /\ ~cache["https://api.eventful.com/json/events/search?location=Paris"].present

\* C17: a call of axiosWithRotation issues at most one upstream call, and the
\* step in which that call settles ends the attempt (a failure is thrown to the
\* chain, not retried); so one request makes at most as many upstream calls as
\* the five chains have provider steps.
ProviderSteps ==
  Len(Declared("city")) + Len(Declared("weather")) + Len(Declared("news"))
    + Len(Declared("events")) + Len(Declared("traffic"))
Attempts ==
  Len(Att("city")) + Len(Att("weather")) + Len(Att("news"))
    + Len(Att("events")) + Len(Att("traffic"))
C17_NoInternalRetry ==
  /\ [](\A c \in ChainSet :
          /\ chain[c].calls <= 1
          /\ chain[c].phase = "net" <=> chain[c].calls = 1)
  /\ [](Attempts <= ProviderSteps)
  /\ [][\A c \in ChainSet :
          (chain[c].phase = "net" /\ chain'[c] # chain[c]) =>
            /\ chain'[c].att[Len(chain[c].att)].outcome # "pending"
            /\ ~cache'[chain[c].url].present =>
                 chain'[c].att[Len(chain[c].att)].outcome = "threw"]_vars
C17_Witness ==
  /\ ENV = "production"
  /\ Sent
  /\ Attempts = ProviderSteps
  /\ \A c \in ChainSet : \A i \in 1..Len(Att(c)) : ~Att(c)[i].hit
  /\ LastAtt("news").outcome = "threw"

\* C18: in a chain at most one fetch is in flight, and it is the latest one;
\* the fetch of a provider is issued only after the attempt on the provider
\* before it ended in failure; a step of one chain leaves the other chains as
\* they are, and several chains can be in flight at once.
C18_SequentialWithinChain ==
  /\ [](\A c \in ChainSet :
          /\ chain[c].phase \in {"net", "probe"} <=>
               (Len(Att(c)) > 0 /\ LastAtt(c).outcome = "pending")
          /\ \A i \in 1..Len(Att(c)) :
               i < Len(Att(c)) =>
                 Att(c)[i].outcome \in (IF c = "traffic" THEN {"continued"} ELSE Failures))
  /\ [][\A c \in ChainSet :
          Len(chain'[c].att) > Len(chain[c].att) =>
            \A i \in 1..Len(chain[c].att) :
              /\ chain'[c].att[i].outcome # "pending"
              /\ chain'[c].att[i].url = chain[c].att[i].url]_vars
  /\ [][\A c \in ChainSet :
          (handling /\ chain'[c] # chain[c]) =>
            \A d \in ChainSet \ {c} : chain'[d] = chain[d]]_vars
C18_Witness ==
  /\ chain["weather"].phase = "net" /\ Len(Att("weather")) = 2
  /\ chain["news"].phase = "net" /\ Len(Att("news")) = 1
  /\ chain["city"].phase = "net" /\ Len(Att("city")) = 3
  /\ chain["traffic"].phase = "net" /\ Len(Att("traffic")) = 2
  /\ Done("events")

ColdAndUnavailable(ch) ==
  \A c \in ChainSet :
    /\ ch[c].phase = "done" /\ ch[c].calls = 0 /\ ch[c].proxy = "none"
    /\ IsSentinel(c, ch[c].value)
    /\ Len(ch[c].att) = (IF c = "traffic" THEN 1 ELSE Len(Declared(c)))
    /\ \A i \in 1..Len(ch[c].att) : ch[c].att[i].outcome = "threw" /\ ~ch[c].att[i].hit
C20_NoBarrierEmptyList ==
  /\ [][(ENV # "production" /\ proxyList = << >> /\ cache = EmptyCache /\ requests' > requests)
          => (ColdAndUnavailable(chain') /\ cache' = EmptyCache)]_vars
  /\ []((ENV # "production" /\ proxyList = << >> /\ requests > 0) =>
          (ColdAndUnavailable(chain) /\ cache = EmptyCache))
  /\ []((Sent /\ ColdAndUnavailable(chain)) =>
          /\ res.status = 200
          /\ \A f \in Categories : IsSentinel(f, res.body[f])
          /\ DOMAIN res.body \subseteq {"city", "city_info"} \cup Categories
          /\ "city_info" \in DOMAIN res.body => IsSentinel("city", res.body.city_info))
C20_Witness ==
  /\ ENV # "production"
  /\ import = "pending"
  /\ proxyFile.exists /\ Len(proxyFile.list) > 0
  /\ Sent
  /\ ColdAndUnavailable(chain)
  /\ cache = EmptyCache

\* C21: the traffic chain's first fetch and city-info provider 3 use one url,
\* hence one cache key: once either chain's fetch of it has succeeded, a later
\* fetch of it by the other chain is a cache hit; when both are in flight
\* together each calls the upstream, and each completion stores its payload
\* under the key, the later one replacing the earlier.
GeoKey == "https://api.openweathermap.org/geo/1.0/direct?q=Paris&limit=1"
GeoEntryFresh == cache[GeoKey].present /\ ~(cache[GeoKey].t < now)
C21_SameKey ==
  /\ geoUrl(CityName) = GeoKey
  /\ geoCodingUrl(CityName) = GeoKey
  /\ FirstUrl("traffic", CityName) = GeoKey
C21_LaterFetchHits ==
  /\ (Len(chain'["city"].att) >= 3 /\ Len(chain["city"].att) < 3 /\ GeoEntryFresh)
       => (chain'["city"].att[3].url = GeoKey /\ chain'["city"].att[3].hit)
  /\ (Len(chain'["traffic"].att) >= 1 /\ Len(chain["traffic"].att) = 0 /\ GeoEntryFresh)
       => (chain'["traffic"].att[1].url = GeoKey /\ chain'["traffic"].att[1].hit)
C21_LastWriteWins ==
  \A c \in {"city", "traffic"} :
    (/\ chain[c].phase = "net" /\ chain[c].url = GeoKey
     /\ chain'[c] # chain[c]
     /\ chain'[c].att[Len(chain[c].att)].outcome # "threw")
    => /\ ~chain[c].att[Len(chain[c].att)].hit
       /\ cache'[GeoKey].present
       /\ cache'[GeoKey].v \in GeocodingPayloads
       /\ cache'[GeoKey].t = now + 3600 * 1000
       /\ \A u \in AllUrls \ {GeoKey} : cache'[u] = cache[u]
C21_SharedGeocodingKey ==
  /\ []C21_SameKey
  /\ [][C21_LaterFetchHits]_vars
  /\ [][C21_LastWriteWins]_vars

(* ========================= the claims, unit level ====================== *)
Caller(p) == unit.callers[p]
Sel == unit.sel
TtlMs == 3600 * 1000

C6_ExpiryDecidesUpstreamCall ==
  \A p \in Callers :
    /\ Caller(p).entry \in {"fresh", "fresh-falsy"} =>
         (Caller(p).calls = 0 /\ Caller(p).phase = "idle")
    /\ (Caller(p).entry = "expired" /\ Caller(p).phase = "idle") =>
         (Caller(p).calls = 1 \/ Caller(p).selected)

\* C7: outside production and with a non-empty list, getValidProxy(N) never
\* makes more than N probes, throws the no-valid-proxy error after exactly N
\* failed probes, and returns only the candidate whose probe just succeeded.
C7_BoundedProbes ==
  (unit.kind = "select" /\ ENV # "production" /\ Sel.listLen > 0)
  => /\ Sel.probes <= Sel.maxRetries
     /\ Sel.phase = "threw" =>
          /\ Sel.probes = Sel.maxRetries
          /\ Sel.error = "No valid proxies available after maximum retries."
          /\ ~Sel.lastValid
     /\ Sel.phase = "returned" =>
          /\ Sel.lastValid
          /\ Sel.returned = Sel.picked
          /\ Sel.returned \in 1..Sel.listLen
C7_Witness ==
  /\ unit.kind = "select" /\ ENV # "production"
  /\ Sel.phase = "threw"
  /\ Sel.listLen = MaxProxies
  /\ Sel.maxRetries = MaxRetriesArg
  /\ Sel.probes = MaxRetriesArg

C12_HitShortCircuits ==
  \A p \in Callers :
    Caller(p).entry \in {"fresh", "fresh-falsy"} =>
      /\ Caller(p).agents = 0
      /\ ~Caller(p).selected
      /\ Caller(p).calls = 0
      /\ Caller(p).last = "returned"

\* C14: outside production and with an empty list, getValidProxy throws without
\* a probe, and the error it throws is not the one it throws after maxRetries
\* failed probes.
C14_EmptyListDistinctError ==
  (unit.kind = "select" /\ ENV # "production" /\ Sel.phase = "threw" /\ Sel.listLen = 0)
  => /\ Sel.probes = 0
     /\ Sel.error # "No valid proxies available after maximum retries."

====
